---- MODULE Spec2Model ----
(* AutoMnt (automnt.py): supervisor of rclone mounts.  The persisted files   *)
(* (mounts.json, pids.json), the processes spawned by start_mount, the       *)
(* OS mount table probed by os.path.ismount, and the CLI operations          *)
(* start / stop / status / watchdog as state-changing actions.               *)
EXTENDS Integers, Sequences, FiniteSets, TLC

(***************************************************************************)
(* Bounds of the model                                                     *)
(***************************************************************************)
MaxPid == 2        \* pids handed out by the OS: 1..MaxPid, never reused
MaxBatch == 2      \* names given on one command line
MaxRemotes == 2    \* lines printed by rclone listremotes

(***************************************************************************)
(* Value universe                                                          *)
(***************************************************************************)
Names == {"a", "b"}                  \* names used in mounts.json
ArgNames == Names \cup {"zz", ""}    \* names a caller may pass ("" is falsy in Python)
MountPoints == {"/m/a", "/m/b"}
Times == {0, 1}                      \* values of time.strftime
Blank == {"", " "}                   \* strings s with s.strip() == ""

\* A JSON "remote" value: a dict with some of the keys name/type, or a non-dict.
Remote(isdict, keys, name, type) ==
    [isdict |-> isdict, keys |-> keys, name |-> name, type |-> type]
RemoteOk == Remote(TRUE, {"name", "type"}, "gdrive:", "drive")
RemoteEmptyName == Remote(TRUE, {"name", "type"}, "", "")
RemoteNoType == Remote(TRUE, {"name"}, "gdrive:", "")
RemoteNotDict == Remote(FALSE, {}, "", "")
EmptyDict == Remote(TRUE, {}, "", "")

\* A JSON "mount_point" value: a string or something else (null, number).
Str(s) == [isstr |-> TRUE, s |-> s]
NotStr == [isstr |-> FALSE, s |-> ""]

\* dict.get(key, default)
Get(mount, key, default) ==
    IF key \in DOMAIN mount THEN mount[key] ELSE default

\* A stored mount object with the keys name, remote, mount_point and, when
\* en / ar is not "absent", enable / auto_restart.
Stored(name, remote, mp, en, ar) ==
    LET base == [k \in {"name", "remote", "mount_point"} |->
                    IF k = "name" THEN name
                    ELSE IF k = "remote" THEN remote ELSE mp]
        withEn == IF en = "absent" THEN base
                  ELSE [k \in DOMAIN base \cup {"enable"} |->
                           IF k = "enable" THEN (en = "true") ELSE base[k]]
    IN  IF ar = "absent" THEN withEn
        ELSE [k \in DOMAIN withEn \cup {"auto_restart"} |->
                 IF k = "auto_restart" THEN (ar = "true") ELSE withEn[k]]

MOUNT_DEFAULTS ==
    [options |-> <<>>, auto_restart |-> FALSE,
     description |-> "No description provided", enable |-> TRUE]

(***************************************************************************)
(* Pure functions of automnt.py                                            *)
(***************************************************************************)
is_valid_mount(mount) ==
    LET remote == Get(mount, "remote", EmptyDict)
        mount_point == Get(mount, "mount_point", NotStr)
    IN  IF ~remote.isdict \/ "name" \notin remote.keys \/ "type" \notin remote.keys
        THEN FALSE
        ELSE IF ~mount_point.isstr \/ mount_point.s \in Blank
        THEN FALSE
        ELSE TRUE

\* for key, value in MOUNT_DEFAULTS.items(): mount.setdefault(key, value)
SetDefaults(mount) ==
    [k \in DOMAIN mount \cup DOMAIN MOUNT_DEFAULTS |->
        IF k \in DOMAIN mount THEN mount[k] ELSE MOUNT_DEFAULTS[k]]

\* LoadOne without the forced enable = False of line 76.
LoadOneKeepEnable(mount) ==
    SetDefaults(mount)

\* LoadOne that inverts enable on an invalid mount instead of clearing it.
LoadOneFlipEnable(mount) ==
    LET m == SetDefaults(mount)
    IN  IF ~is_valid_mount(m) THEN [m EXCEPT !["enable"] = ~@] ELSE m

\* Body of the loop of load_mounts for one mount object.
LoadOne(mount) ==
    LET m == SetDefaults(mount)
    IN  IF ~is_valid_mount(m) THEN [m EXCEPT !["enable"] = FALSE] ELSE m

\* A persisted file: missing, unparseable, or holding data.
Missing == [kind |-> "missing", data |-> <<>>]
Malformed == [kind |-> "malformed", data |-> <<>>]
File(data) == [kind |-> "ok", data |-> data]

\* load_mounts(): raised is the uncaught json.JSONDecodeError.
load_mounts(file) ==
    IF file.kind = "missing" THEN [raised |-> FALSE, mounts |-> <<>>]
    ELSE IF file.kind = "malformed" THEN [raised |-> TRUE, mounts |-> <<>>]
    ELSE [raised |-> FALSE,
          mounts |-> [i \in 1..Len(file.data) |-> LoadOne(file.data[i])]]

\* save_mounts(mounts): json.dump of the list; an IOError is caught and leaves
\* the file as it was.
SaveFates == {"ok", "ioerror"}
save_mounts(file, mounts, fate) ==
    IF fate = "ioerror" THEN file ELSE File(mounts)

\* The lines of `rclone listremotes`, and remote.strip(":").
RemoteLines == {"", "a:", "c:"}
Strip(remote) ==
    CASE remote = "a:" -> "a"
      [] remote = "c:" -> "c"
      [] OTHER -> ""
\* os.path.join(MOUNT_BASE_DIR, mount_name)
BasePath(mount_name) ==
    CASE mount_name = "a" -> "/base/a"
      [] mount_name = "c" -> "/base/c"
      [] OTHER -> "/base/"
\* The mount object import builds for a remote (lines 251-259).
Imported(remote) ==
    [name |-> Strip(remote),
     remote |-> Remote(TRUE, {"name", "type"}, remote, "unknown"),
     mount_point |-> Str(BasePath(Strip(remote))),
     options |-> <<>>,
     auto_restart |-> FALSE,
     description |-> <<"Imported mount for", remote>>,
     enable |-> TRUE]

\* import_one that appends without looking for the name.
import_one_always(mounts, remote) ==
    IF remote = "" THEN mounts
    ELSE Append(mounts, Imported(remote))

\* Body of the loop of import_mounts_from_rclone for one line.
import_one(mounts, remote) ==
    IF remote = "" THEN mounts
    ELSE IF \E i \in DOMAIN mounts : mounts[i]["name"] = Strip(remote)
    THEN mounts
    ELSE Append(mounts, Imported(remote))

RECURSIVE import_from(_, _, _)
import_from(i, mounts, remotes) ==
    IF i > Len(remotes) THEN mounts
    ELSE import_from(i + 1, import_one(mounts, remotes[i]), remotes)

\* What subprocess.run does: returns, raises CalledProcessError (rclone exits
\* with an error; caught), or raises FileNotFoundError (no rclone; not caught).
RunFates == {"ok", "callerror", "norclone"}

\* import_mounts_from_rclone(): the file afterwards, and whether it raised.
import_mounts_from_rclone(file, remotes, run, save) ==
    LET ld == load_mounts(file)
    IN  IF run = "norclone" THEN [raised |-> TRUE, file |-> file]
        ELSE IF run = "callerror" THEN [raised |-> FALSE, file |-> file]
        ELSE IF ld.raised THEN [raised |-> TRUE, file |-> file]
        ELSE [raised |-> FALSE,
              file |-> save_mounts(file, import_from(1, ld.mounts, remotes), save)]

\* The ledger held by pids.json: a dict, with the order of its keys (json keeps
\* insertion order) and the record at each key.
NoPids == [keys |-> <<>>, at |-> <<>>]
Has(pids, name) == name \in DOMAIN pids.at
\* An assignment that drops the records of the other names.
PutAlone(pids, name, rec) ==
    [keys |-> <<name>>, at |-> [n \in {name} |-> rec]]

\* pids[name] = rec
Put(pids, name, rec) ==
    [keys |-> IF Has(pids, name) THEN pids.keys ELSE Append(pids.keys, name),
     at |-> [n \in DOMAIN pids.at \cup {name} |->
                IF n = name THEN rec ELSE pids.at[n]]]
\* A del that leaves the entry in place.
DelNothing(pids, name) == pids

\* del pids[name]
Del(pids, name) ==
    [keys |-> SelectSeq(pids.keys, LAMBDA n : n # name),
     at |-> [n \in DOMAIN pids.at \ {name} |-> pids.at[n]]]

\* load_pids(): FileNotFoundError gives {}, json.JSONDecodeError is not caught.
load_pids(file) ==
    IF file.kind = "missing" THEN [raised |-> FALSE, pids |-> NoPids]
    ELSE IF file.kind = "malformed" THEN [raised |-> TRUE, pids |-> NoPids]
    ELSE [raised |-> FALSE, pids |-> file.data]

\* load_global_config(): a missing file and a json.JSONDecodeError both give the
\* defaults; a file whose JSON is not an object makes .get raise AttributeError.
ConfigKinds == {"missing", "malformed", "notdict"}
load_global_config(file) ==
    [raised |-> (file = "notdict")]

(***************************************************************************)
(* The world an operation runs in, threaded through the operations:        *)
(*   pidsFile  pids.json                                                   *)
(*   procs     the live processes spawned by start_mount, [pid, name]      *)
(*   mounted   the paths for which os.path.ismount answers true            *)
(*   nextPid   the pid the next spawned process gets                       *)
(*   calls     the calls made so far by the running operation              *)
(*   raised    an exception is propagating                                 *)
(***************************************************************************)
Call(f, name, pid, mp) == [f |-> f, name |-> name, pid |-> pid, mp |-> mp]
Did(w, c) == [w EXCEPT !.calls = Append(@, c)]
Raise(w) == [w EXCEPT !.raised = TRUE]

\* What the environment does to one start_mount: nothing, os.makedirs raises
\* (the path exists as a file), or subprocess.Popen raises (rclone not found).
Fates == {"ok", "mkdir", "spawn"}
\* What os.kill does for a pid that is not a live spawned process:
\* ProcessLookupError, or another OSError (PermissionError: the pid was reused).
Signals == {"notfound", "other"}

Alive(w, pid) == \E p \in w.procs : p.pid = pid

\* start_mount past the enable test (lines 121-147).
start_enabled(mount, w, config, fate, now) ==
    LET name == mount["name"]
        mp == mount["mount_point"].s
        w1 == Did(w, Call("start_mount", name, 0, ""))
        w2 == Did(w1, Call("makedirs", name, 0, mp))
        pid == w.nextPid
        w3 == [Did(w2, Call("Popen", name, pid, mp))
                  EXCEPT !.procs = @ \cup {[pid |-> pid, name |-> name]},
                         !.nextPid = @ + 1]
        ld == load_pids(w3.pidsFile)
        rec == [pid |-> pid, mount_point |-> mp, timestamp |-> now]
    IN  IF load_global_config(config).raised THEN Raise(w1)
        ELSE IF ~mount["mount_point"].isstr THEN Raise(w1)
        ELSE IF fate = "mkdir" THEN Raise(w2)
        ELSE IF fate = "spawn" THEN Raise(Did(w2, Call("Popen", name, 0, mp)))
        ELSE IF ld.raised THEN Raise(w3)
        ELSE [Did(w3, Call("save_pids", name, pid, mp))
                 EXCEPT !.pidsFile = File(Put(ld.pids, name, rec))]

\* start_mount without the enable test of line 117.
start_mount_always(mount, w, config, fate, now) ==
    start_enabled(mount, w, config, fate, now)

start_mount(mount, w, config, fate, now) ==
    IF ~Get(mount, "enable", TRUE)
    THEN Did(w, Call("start_mount", mount["name"], 0, ""))
    ELSE start_enabled(mount, w, config, fate, now)

\* stop_mount that signals every process spawned for the name.
stop_mount_all(mount_name, w, sig) ==
    LET w1 == Did(w, Call("stop_mount", mount_name, 0, ""))
        ld == load_pids(w.pidsFile)
    IN  IF ld.raised THEN Raise(w1)
        ELSE IF ~Has(ld.pids, mount_name) THEN w1
        ELSE
          LET pid == ld.pids.at[mount_name].pid
              mount_point == ld.pids.at[mount_name].mount_point
              w2 == [Did(w1, Call("kill", mount_name, pid, ""))
                        EXCEPT !.procs = {p \in @ : p.name # mount_name}]
              w3 == Did(w2, Call("fusermount", mount_name, 0, mount_point))
          IN  IF ~Alive(w, pid) /\ sig = "other" THEN Raise(w2)
              ELSE [Did(w3, Call("save_pids", mount_name, 0, ""))
                       EXCEPT !.pidsFile = File(Del(ld.pids, mount_name))]

\* stop_mount(mount_name); sig is os.kill's outcome when the pid is not alive.
stop_mount(mount_name, w, sig) ==
    LET w1 == Did(w, Call("stop_mount", mount_name, 0, ""))
        ld == load_pids(w.pidsFile)
    IN  IF ld.raised THEN Raise(w1)
        ELSE IF ~Has(ld.pids, mount_name) THEN w1
        ELSE
          LET pid == ld.pids.at[mount_name].pid
              mount_point == ld.pids.at[mount_name].mount_point
              w2 == [Did(w1, Call("kill", mount_name, pid, ""))
                        EXCEPT !.procs = {p \in @ : p.pid # pid}]
              w3 == Did(w2, Call("fusermount", mount_name, 0, mount_point))
          IN  IF ~Alive(w, pid) /\ sig = "other" THEN Raise(w2)
              ELSE [Did(w3, Call("save_pids", mount_name, 0, ""))
                       EXCEPT !.pidsFile = File(Del(ld.pids, mount_name))]

validate_mount(w, mount_point) == mount_point \in w.mounted

\* resolve_mount(name): the first loaded mount with that name, or None.
Found(mounts, name) == {i \in 1..Len(mounts) : mounts[i]["name"] = name}
Min(S) == CHOOSE i \in S : \A j \in S : i <= j
resolve_mount(file, name) ==
    LET ld == load_mounts(file)
    IN  IF ld.raised THEN [raised |-> TRUE, found |-> FALSE, mount |-> <<>>]
        ELSE IF Found(ld.mounts, name) = {}
        THEN [raised |-> FALSE, found |-> FALSE, mount |-> <<>>]
        ELSE [raised |-> FALSE, found |-> TRUE,
              mount |-> ld.mounts[Min(Found(ld.mounts, name))]]

\* start_mnt(*mount_names), from position i on; fates[i] is the environment's
\* part in the i-th start.  An exception ends the loop.
RECURSIVE start_mnt_from(_, _, _, _, _, _, _)
start_mnt_from(i, mount_names, w, file, config, fates, now) ==
    IF i > Len(mount_names) \/ w.raised THEN w
    ELSE LET r == resolve_mount(file, mount_names[i])
             w1 == IF r.raised THEN Raise(w)
                   ELSE IF r.found
                   THEN start_mount(r.mount, w, config, fates[i], now)
                   ELSE w
         IN  start_mnt_from(i + 1, mount_names, w1, file, config, fates, now)

start_mnt(mount_names, w, file, config, fates, now) ==
    start_mnt_from(1, mount_names, w, file, config, fates, now)

\* for mount in mounts: start_mount(mount)   (cli, "start all")
RECURSIVE start_each_from(_, _, _, _, _, _)
start_each_from(i, mounts, w, config, fates, now) ==
    IF i > Len(mounts) \/ w.raised THEN w
    ELSE start_each_from(i + 1, mounts,
                         start_mount(mounts[i], w, config, fates[i], now),
                         config, fates, now)

start_all(w, file, config, fates, now) ==
    LET ld == load_mounts(file)
    IN  IF ld.raised THEN Raise(w)
        ELSE start_each_from(1, ld.mounts, w, config, fates, now)

\* stop_mnt(*mount_names), from position i on.
RECURSIVE stop_mnt_from(_, _, _, _)
stop_mnt_from(i, mount_names, w, sigs) ==
    IF i > Len(mount_names) \/ w.raised THEN w
    ELSE stop_mnt_from(i + 1, mount_names,
                       stop_mount(mount_names[i], w, sigs[i]), sigs)

stop_mnt(mount_names, w, sigs) ==
    stop_mnt_from(1, mount_names, w, sigs)

\* for mount_name in list(load_pids().keys()): stop_mount(mount_name)
\* (cli, "stop all")
stop_all(w, sigs) ==
    LET ld == load_pids(w.pidsFile)
    IN  IF ld.raised THEN Raise(w)
        ELSE stop_mnt_from(1, ld.pids.keys, w, sigs)

\* get_status(mount) of mnt_status
get_status(mount, pids, w) ==
    IF ~Get(mount, "enable", TRUE) THEN "Disabled"
    ELSE IF Has(pids, mount["name"])
    THEN (IF validate_mount(w, pids.at[mount["name"]].mount_point)
          THEN "Active" ELSE "Inactive")
    ELSE "Not Mounted"

\* The argument of mnt_status: None, or a name.
NoName == [given |-> FALSE, name |-> ""]
Name(n) == [given |-> TRUE, name |-> n]
Truthy(arg) == arg.given /\ arg.name # ""
Max(S) == CHOOSE i \in S : \A j \in S : j <= i

\* mnt_status(mnt_name): result is the dict returned.
mnt_status(mnt_name, w, file) ==
    LET ldm == load_mounts(file)
        ldp == load_pids(w.pidsFile)
        r == resolve_mount(file, mnt_name.name)
    IN  IF ldm.raised \/ ldp.raised THEN [raised |-> TRUE, result |-> <<>>]
        ELSE IF Truthy(mnt_name)
        THEN [raised |-> FALSE,
              result |-> [n \in {mnt_name.name} |->
                            IF r.found THEN get_status(r.mount, ldp.pids, w)
                            ELSE "Not Found"]]
        ELSE [raised |-> FALSE,
              result |-> [n \in {ldm.mounts[i]["name"] : i \in 1..Len(ldm.mounts)} |->
                            get_status(ldm.mounts[Max(Found(ldm.mounts, n))],
                                       ldp.pids, w)]]

\* watchdog_one that restarts a failed mount whatever its auto_restart.
watchdog_one_always(mount, pids, w, config, fate, now) ==
    IF ~Get(mount, "enable", TRUE) THEN w
    ELSE IF Has(pids, mount["name"])
            /\ ~validate_mount(w, pids.at[mount["name"]].mount_point)
    THEN start_mount(mount, w, config, fate, now)
    ELSE w

\* The body of the for loop of watchdog for one mount; pids is the ledger
\* loaded at the top of the tick.
watchdog_one(mount, pids, w, config, fate, now) ==
    IF ~Get(mount, "enable", TRUE) THEN w
    ELSE IF Has(pids, mount["name"])
            /\ ~validate_mount(w, pids.at[mount["name"]].mount_point)
    THEN (IF Get(mount, "auto_restart", FALSE)
          THEN start_mount(mount, w, config, fate, now)
          ELSE w)
    ELSE w

RECURSIVE watchdog_from(_, _, _, _, _, _, _)
watchdog_from(i, mounts, pids, w, config, fates, now) ==
    IF i > Len(mounts) \/ w.raised THEN w
    ELSE watchdog_from(i + 1, mounts, pids,
                       watchdog_one(mounts[i], pids, w, config, fates[i], now),
                       config, fates, now)

\* One pass of the while loop of watchdog (lines 221-231).
watchdog_tick(w, file, config, fates, now) ==
    LET ldp == load_pids(w.pidsFile)
        ldm == load_mounts(file)
    IN  IF ldp.raised \/ ldm.raised THEN Raise(w)
        ELSE watchdog_from(1, ldm.mounts, ldp.pids, w, config, fates, now)

(***************************************************************************)
(* State                                                                   *)
(***************************************************************************)
VARIABLES
    mountsFile,   \* mounts.json
    pidsFile,     \* pids.json
    configFile,   \* config.json, one of ConfigKinds
    procs,        \* live processes spawned by start_mount
    nextPid,      \* next pid the OS hands out
    last,         \* the operation that made the last step, and what it did
    running       \* the operations in progress in separate processes

vars == <<mountsFile, pidsFile, configFile, procs, nextPid, last, running>>

\* An operation in progress: its position (pc), the ledger it has loaded
\* (read), the pid it has spawned, and for a stop whether it removed an entry.
NotRunning ==
    [op |-> "none", name |-> "", pc |-> "done", read |-> NoPids, pid |-> 0,
     now |-> 0, i |-> 0, removed |-> FALSE]
Processes == {"start", "stop", "watchdog"}
NoneRunning == [p \in Processes |-> NotRunning]

\* The contents mounts.json is given by its author: mount a as enabled with
\* auto_restart, with the defaults left out, disabled, invalid but stored as
\* enabled, or moved to another mount point; mount b enabled with auto_restart.
SpecsA ==
    {Stored("a", RemoteOk, Str("/m/a"), "true", "true"),
     Stored("a", RemoteOk, Str("/m/a"), "absent", "absent"),
     Stored("a", RemoteOk, Str("/m/a"), "false", "true"),
     Stored("a", RemoteNoType, Str("/m/a"), "true", "true"),
     Stored("a", RemoteOk, Str("/m/b"), "true", "true")}
SpecsB ==
    {Stored("b", RemoteOk, Str("/m/b"), "true", "true")}
MountsFiles ==
    {Malformed} \cup {File(<<x, y>>) : x \in SpecsA, y \in SpecsB}

\* The world at the start of an operation; probe is what os.path.ismount
\* answers while it runs: the mount points that are mounted.
World(probe) ==
    [pidsFile |-> pidsFile, procs |-> procs, mounted |-> probe,
     nextPid |-> nextPid, calls |-> <<>>, raised |-> FALSE]

Idle == [op |-> "none", args |-> <<>>, pre |-> Missing, probe |-> {},
         calls |-> <<>>, raised |-> FALSE, result |-> <<>>]
Done(op, args, w, result) ==
    [op |-> op, args |-> args, pre |-> pidsFile, probe |-> w.mounted,
     calls |-> w.calls, raised |-> w.raised, result |-> result]

\* The operation's effects on the world become the next state.
Commit(w) ==
    /\ w.nextPid <= MaxPid + 1
    /\ pidsFile' = w.pidsFile
    /\ procs' = w.procs
    /\ nextPid' = w.nextPid
    /\ UNCHANGED <<mountsFile, configFile, running>>

Batches(S) == UNION {[1..n -> S] : n \in 1..MaxBatch}
\* The environment's part in the calls of one operation.  An exception ends
\* the operation, so what would come after the first one is left at its default.
FateSeqs(n) ==
    {f \in [1..n -> Fates] :
        \A i, j \in 1..n : (i < j /\ f[i] # "ok") => f[j] = "ok"}
SigSeqs(n) ==
    {g \in [1..n -> Signals] :
        \A i, j \in 1..n : (i < j /\ g[i] # "notfound") => g[j] = "notfound"}
\* The paths an operation can probe: those recorded in the ledger.
Recorded(file) ==
    IF file.kind = "ok" THEN {file.data.at[n].mount_point : n \in DOMAIN file.data.at}
    ELSE {}

Init ==
    /\ mountsFile \in MountsFiles
    /\ pidsFile = Missing
    /\ configFile = "missing"
    /\ procs = {}
    /\ nextPid = 1
    /\ last = Idle
    /\ running = NoneRunning

(***************************************************************************)
(* The command line (cli)                                                  *)
(***************************************************************************)
\* automnt.py start <names>
StartNames(names) ==
    \E fates \in FateSeqs(Len(names)), now \in Times :
        LET w == start_mnt(names, World({}), mountsFile, configFile, fates, now)
        IN  /\ Commit(w)
            /\ last' = Done("start", names, w, <<>>)

\* automnt.py start <name>
CliStart ==
    \E names \in [1..1 -> Names] : StartNames(names)

\* automnt.py start all
CliStartAll ==
    \E fates \in FateSeqs(Len(load_mounts(mountsFile).mounts)), now \in Times :
        LET w == start_all(World({}), mountsFile, configFile, fates, now)
        IN  /\ Commit(w)
            /\ last' = Done("start all", <<>>, w, <<>>)

\* automnt.py stop <names>
StopNames(names) ==
    \E sigs \in SigSeqs(Len(names)) :
        LET w == stop_mnt(names, World({}), sigs)
        IN  /\ Commit(w)
            /\ last' = Done("stop", names, w, <<>>)

\* automnt.py stop <name>
CliStop ==
    \E names \in [1..1 -> Names] : StopNames(names)

\* automnt.py stop all
CliStopAll ==
    \E sigs \in SigSeqs(Len(load_pids(pidsFile).pids.keys)) :
        LET w == stop_all(World({}), sigs)
        IN  /\ Commit(w)
            /\ last' = Done("stop all", <<>>, w, <<>>)

\* automnt.py status [name]
CliStatus ==
    \E arg \in {NoName} \cup {Name(n) : n \in ArgNames},
       probe \in SUBSET Recorded(pidsFile) :
        LET r == mnt_status(arg, World(probe), mountsFile)
        IN  /\ last' = [op |-> "status",
                        args |-> IF arg.given THEN <<arg.name>> ELSE <<>>,
                        pre |-> pidsFile, probe |-> probe,
                        calls |-> <<>>, raised |-> r.raised, result |-> r.result]
            /\ UNCHANGED <<mountsFile, pidsFile, configFile, procs, nextPid, running>>

(***************************************************************************)
(* The watchdog process                                                    *)
(***************************************************************************)
\* One pass of the while loop of a running watchdog (cli, "watchdog").  An
\* exception (last.raised) leaves the loop: that watchdog process has ended,
\* and a later tick is one of a watchdog started anew.
WatchdogTick ==
    \E fates \in FateSeqs(Len(load_mounts(mountsFile).mounts)), now \in Times,
       probe \in SUBSET Recorded(pidsFile) :
        LET w == watchdog_tick(World(probe), mountsFile, configFile, fates, now)
        IN  /\ Commit(w)
            /\ last' = Done("tick", <<>>, w, <<>>)

(***************************************************************************)
(* The environment                                                         *)
(***************************************************************************)
\* A spawned process exits on its own.
ProcessExits ==
    \E p \in procs :
        /\ procs' = procs \ {p}
        /\ last' = Idle
        /\ UNCHANGED <<mountsFile, pidsFile, configFile, nextPid, running>>

\* mounts.json is edited by its author; pids.json is left unparseable (it is
\* damaged, or save_pids, which truncates it before writing, was interrupted).
FilesEdited ==
    /\ \/ mountsFile' \in MountsFiles /\ UNCHANGED pidsFile
       \/ pidsFile' = Malformed /\ UNCHANGED mountsFile
    /\ last' = Idle
    /\ UNCHANGED <<configFile, procs, nextPid, running>>

Next ==
    \/ CliStart
    \/ CliStartAll
    \/ CliStop
    \/ CliStopAll
    \/ WatchdogTick
    \/ ProcessExits
    \/ FilesEdited

Spec == Init /\ [][Next]_vars

(***************************************************************************)
(* Batches: start and stop given several names on one command line         *)
(***************************************************************************)
\* automnt.py start <name> <name> ...; a name may be one of no mount.
CliStartMany ==
    \E names \in Batches(Names \cup {"zz"}) : StartNames(names)

\* automnt.py stop <name> <name> ...
CliStopMany ==
    \E names \in Batches(Names \cup {"zz"}) : StopNames(names)

NextBatch ==
    \/ CliStartMany
    \/ CliStartAll
    \/ CliStopMany
    \/ CliStopAll
    \/ ProcessExits
    \/ FilesEdited

SpecBatch == Init /\ [][NextBatch]_vars

(***************************************************************************)
(* Status: mnt_status applied to the files and probe results it may meet   *)
(***************************************************************************)
Rec(pid, mount_point) ==
    [pid |-> pid, mount_point |-> mount_point, timestamp |-> 0]
\* The ledgers start_mount and stop_mount leave behind for the mounts a and b.
Ledgers ==
    {NoPids}
      \cup {Put(NoPids, "a", Rec(1, x)) : x \in MountPoints}
      \cup {Put(NoPids, "b", Rec(1, "/m/b"))}
      \cup {Put(Put(NoPids, "a", Rec(1, x)), "b", Rec(2, "/m/b")) : x \in MountPoints}
PidsFiles == {Missing, Malformed} \cup {File(l) : l \in Ledgers}

InitStatus ==
    /\ mountsFile \in MountsFiles
    /\ pidsFile \in PidsFiles
    /\ configFile = "missing"
    /\ procs = {}
    /\ nextPid = MaxPid + 1
    /\ last = Idle
    /\ running = NoneRunning

NextStatus == CliStatus

SpecStatus == InitStatus /\ [][NextStatus]_vars

(***************************************************************************)
(* The spec file: is_valid_mount, load_mounts and save_mounts applied to   *)
(* the mount objects mounts.json may hold                                  *)
(***************************************************************************)
RemoteEmptyType == Remote(TRUE, {"name", "type"}, "gdrive:", "")
AnyRemotes ==
    {RemoteOk, RemoteEmptyName, RemoteEmptyType, RemoteNoType, RemoteNotDict,
     EmptyDict}
AnyPoints == {Str("/m/a"), Str(""), Str(" "), NotStr}
\* A mount object without the key k.
Without(mount, k) == [x \in DOMAIN mount \ {k} |-> mount[x]]
AnyMounts ==
    LET full == {Stored("a", r, mp, en, ar) :
                    r \in AnyRemotes, mp \in AnyPoints,
                    en \in {"true", "false", "absent"}, ar \in {"true", "absent"}}
    IN  full \cup {Without(Stored("a", RemoteOk, Str("/m/a"), "true", "true"), k) :
                      k \in {"remote", "mount_point"}}
AnyMountsFiles ==
    {Missing, Malformed} \cup {File(<<m>>) : m \in AnyMounts}
      \cup {File(<<x, y>>) : x \in SpecsA, y \in SpecsB}

InitFiles ==
    /\ mountsFile \in AnyMountsFiles
    /\ pidsFile = Missing
    /\ configFile = "missing"
    /\ procs = {}
    /\ nextPid = 1
    /\ last = Idle
    /\ running = NoneRunning

\* is_valid_mount applied to the i-th mount object of mounts.json.
Validate ==
    /\ mountsFile.kind = "ok"
    /\ \E i \in DOMAIN mountsFile.data :
          last' = [op |-> "validate", args |-> <<mountsFile.data[i]>>,
                   pre |-> Missing, probe |-> {}, calls |-> <<>>,
                   raised |-> FALSE,
                   result |-> is_valid_mount(mountsFile.data[i])]
    /\ UNCHANGED <<mountsFile, pidsFile, configFile, procs, nextPid, running>>

\* load_mounts() followed by save_mounts(mounts), as import does (lines 247
\* and 262) when rclone lists nothing new.
Resave ==
    LET ld == load_mounts(mountsFile)
    IN  /\ mountsFile' = IF ld.raised THEN mountsFile
                         ELSE save_mounts(mountsFile, ld.mounts, "ok")
        /\ last' = [op |-> "resave", args |-> <<mountsFile>>,
                    pre |-> Missing, probe |-> {}, calls |-> <<>>,
                    raised |-> ld.raised, result |-> ld.mounts]
        /\ UNCHANGED <<pidsFile, configFile, procs, nextPid, running>>

\* result.stdout.strip().split("\n"): one empty line, or lines of which the
\* first and the last are not empty.
RemoteLists ==
    {<<"">>} \cup
    {r \in UNION {[1..n -> RemoteLines] : n \in 1..MaxRemotes} :
        r[1] # "" /\ r[Len(r)] # ""}

\* automnt.py import
CliImport ==
    \E remotes \in RemoteLists, run \in RunFates, save \in SaveFates :
        LET r == import_mounts_from_rclone(mountsFile, remotes, run, save)
        IN  /\ mountsFile' = r.file
            /\ last' = [op |-> "import", args |-> <<mountsFile, remotes, run, save>>,
                        pre |-> Missing, probe |-> {}, calls |-> <<>>,
                        raised |-> r.raised, result |-> <<>>]
            /\ UNCHANGED <<pidsFile, configFile, procs, nextPid, running>>

NextFiles ==
    \/ Validate
    \/ Resave
    \/ CliImport

SpecFiles == InitFiles /\ [][NextFiles]_vars

(***************************************************************************)
(* Separate processes: a CLI start, a CLI stop and the watchdog, each      *)
(* taking its load_pids and its save_pids as steps of their own            *)
(***************************************************************************)
\* A save that loads the ledger anew instead of writing the copy it holds.
start_write_fresh(read, current, name, rec) ==
    File(Put(current, name, rec))

\* pids[mount["name"]] = record; save_pids(pids) on the ledger read at line
\* 140; current is what pids.json holds by now.
start_write(read, current, name, rec) ==
    File(Put(read, name, rec))

InitRace ==
    /\ mountsFile = File(<<Stored("a", RemoteOk, Str("/m/a"), "true", "true"),
                           Stored("b", RemoteOk, Str("/m/b"), "true", "true")>>)
    /\ pidsFile = Missing
    /\ configFile = "missing"
    /\ procs = {}
    /\ nextPid = 1
    /\ last = Idle
    /\ running = NoneRunning

\* automnt.py start <name>, up to subprocess.Popen (lines 113-139).  An
\* explicit start ends the standing of a completed stop of the name.
RaceStartSpawn ==
    \E name \in Names, now \in Times :
        LET r == resolve_mount(mountsFile, name)
        IN  /\ running["start"].pc = "done"
            /\ nextPid <= MaxPid
            /\ r.found /\ Get(r.mount, "enable", TRUE)
            /\ procs' = procs \cup {[pid |-> nextPid, name |-> name]}
            /\ nextPid' = nextPid + 1
            /\ running' =
                  [running EXCEPT
                     !["start"] = [NotRunning EXCEPT !.op = "start", !.name = name,
                                                    !.pc = "spawned", !.pid = nextPid,
                                                    !.now = now],
                     !["stop"] = IF @.pc = "done" /\ @.name = name
                                 THEN NotRunning ELSE @]
            /\ UNCHANGED <<mountsFile, pidsFile, configFile, last>>

\* pids = load_pids() of start_mount (line 140)
RaceStartRead ==
    /\ running["start"].pc = "spawned"
    /\ ~load_pids(pidsFile).raised
    /\ running' = [running EXCEPT !["start"].pc = "read",
                                  !["start"].read = load_pids(pidsFile).pids]
    /\ UNCHANGED <<mountsFile, pidsFile, configFile, procs, nextPid, last>>

\* lines 141-146 of start_mount
RaceStartWrite ==
    LET me == running["start"]
        mount == resolve_mount(mountsFile, me.name).mount
        rec == [pid |-> me.pid, mount_point |-> mount["mount_point"].s,
                timestamp |-> me.now]
    IN  /\ me.pc = "read"
        /\ pidsFile' = start_write(me.read, load_pids(pidsFile).pids, me.name, rec)
        /\ running' = [running EXCEPT !["start"].pc = "done"]
        /\ UNCHANGED <<mountsFile, configFile, procs, nextPid, last>>

\* automnt.py stop <name>: pids = load_pids() and the test of line 154
RaceStopRead ==
    \E name \in Names :
        /\ running["stop"].pc = "done"
        /\ ~load_pids(pidsFile).raised
        /\ running' =
              [running EXCEPT
                 !["stop"] = [NotRunning EXCEPT
                                !.op = "stop", !.name = name,
                                !.read = load_pids(pidsFile).pids,
                                !.pc = IF Has(load_pids(pidsFile).pids, name)
                                       THEN "read" ELSE "done"]]
        /\ UNCHANGED <<mountsFile, pidsFile, configFile, procs, nextPid, last>>

\* lines 155-164 of stop_mount: os.kill, fusermount, del, save_pids
RaceStopWrite ==
    LET me == running["stop"]
    IN  /\ me.pc = "read"
        /\ procs' = {p \in procs : p.pid # me.read.at[me.name].pid}
        /\ pidsFile' = File(Del(me.read, me.name))
        /\ running' = [running EXCEPT !["stop"].pc = "done",
                                      !["stop"].removed = TRUE]
        /\ UNCHANGED <<mountsFile, configFile, nextPid, last>>

\* The top of a pass of the watchdog: pids = load_pids(); mounts = load_mounts()
RaceTickRead ==
    /\ running["watchdog"].pc = "done"
    /\ ~load_pids(pidsFile).raised
    /\ Len(load_mounts(mountsFile).mounts) > 0
    /\ running' =
          [running EXCEPT
             !["watchdog"] = [NotRunning EXCEPT
                                !.op = "tick", !.pc = "loop", !.i = 1,
                                !.read = load_pids(pidsFile).pids]]
    /\ UNCHANGED <<mountsFile, pidsFile, configFile, procs, nextPid, last>>

\* One turn of the for loop of the watchdog, on the ledger read at the top.
RaceTickStep ==
    \E now \in Times, probe \in SUBSET Recorded(File(running["watchdog"].read)) :
        LET me == running["watchdog"]
            mounts == load_mounts(mountsFile).mounts
            w == watchdog_one(mounts[me.i], me.read, World(probe), configFile,
                              "ok", now)
        IN  /\ me.pc = "loop"
            /\ w.nextPid <= MaxPid + 1
            /\ pidsFile' = w.pidsFile
            /\ procs' = w.procs
            /\ nextPid' = w.nextPid
            /\ running' = [running EXCEPT
                             !["watchdog"].i = me.i + 1,
                             !["watchdog"].pc = IF me.i = Len(mounts)
                                                THEN "done" ELSE "loop"]
            /\ UNCHANGED <<mountsFile, configFile, last>>

NextRace ==
    \/ RaceStartSpawn
    \/ RaceStartRead
    \/ RaceStartWrite
    \/ RaceStopRead
    \/ RaceStopWrite
    \/ RaceTickRead
    \/ RaceTickStep

SpecRace == InitRace /\ [][NextRace]_vars

(***************************************************************************)
(* Properties                                                              *)
(***************************************************************************)
\* What the last operation read and did.
Stored_ == IF mountsFile.kind = "ok" THEN mountsFile.data ELSE <<>>
Loaded == load_mounts(mountsFile).mounts
Before == load_pids(last.pre).pids
After == load_pids(pidsFile).pids
CallsTo(f, name) ==
    {i \in DOMAIN last.calls : last.calls[i].f = f /\ last.calls[i].name = name}
StartOps == {"start", "start all", "tick"}
\* The ledger entry of name, or its absence, is as it was before the operation.
SameEntry(name) ==
    /\ Has(After, name) <=> Has(Before, name)
    /\ Has(After, name) => After.at[name] = Before.at[name]

\* C1: in every reachable state at most one live process spawned by the
\* supervisor exists per mount name.
C1_AtMostOneLiveProcess ==
    \A p, q \in procs : p.name = q.name => p = q

\* C2: a spec that fails validation has enable = false after a load, whatever
\* its stored enable, and no start path (start by name, start all, watchdog
\* restart) spawns a process or writes a ledger record for it.
C2_InvalidNeverStarts ==
    \A i \in DOMAIN Stored_ :
        ~is_valid_mount(Stored_[i]) =>
            /\ Loaded[i]["enable"] = FALSE
            /\ last.op \in StartOps =>
                /\ CallsTo("makedirs", Stored_[i]["name"]) = {}
                /\ CallsTo("Popen", Stored_[i]["name"]) = {}
                /\ CallsTo("save_pids", Stored_[i]["name"]) = {}
                /\ SameEntry(Stored_[i]["name"])

\* C2 witness: a watchdog tick has met an invalid spec, stored as enabled and
\* with auto_restart, that has a ledger entry whose mount point is not mounted.
C2_Witness ==
    \E i \in DOMAIN Stored_ :
        /\ ~is_valid_mount(Stored_[i])
        /\ Get(Stored_[i], "enable", TRUE)
        /\ Get(Stored_[i], "auto_restart", FALSE)
        /\ last.op = "tick"
        /\ Has(Before, Stored_[i]["name"])
        /\ Before.at[Stored_[i]["name"]].mount_point \notin last.probe

\* C3: start on an enabled spec ends in exactly one of two ways: a process was
\* spawned and the ledger maps the name to the record of that process, or an
\* error is reported, nothing was spawned and the ledger is unchanged.
C3_StartAllOrNothing ==
    \A i \in DOMAIN Loaded :
        (last.op = "start" /\ last.args = <<Loaded[i]["name"]>>
            /\ Loaded[i]["enable"]) =>
            LET name == Loaded[i]["name"]
                spawned == {last.calls[j].pid : j \in CallsTo("Popen", name)} \ {0}
            IN  \/ /\ ~last.raised
                   /\ Cardinality(spawned) = 1
                   /\ Has(After, name)
                   /\ After.at[name].pid \in spawned
                   /\ After.at[name].mount_point = Loaded[i]["mount_point"].s
                   /\ After.at[name].timestamp \in Times
                \/ /\ last.raised
                   /\ spawned = {}
                   /\ pidsFile = last.pre

\* C4: stop on a name that has a ledger entry invokes the unmount against the
\* recorded mount point and leaves the ledger without an entry for the name,
\* whatever the outcome of the termination signal.
C4_StopAlwaysCleansUp ==
    \A name \in Names :
        (last.op = "stop" /\ last.args = <<name>> /\ Has(Before, name)) =>
            /\ \E j \in CallsTo("fusermount", name) :
                  last.calls[j].mp = Before.at[name].mount_point
            /\ ~Has(After, name)
            /\ pidsFile.kind = "ok"

\* The watchdog's case for restarting the i-th loaded mount: it is enabled, has
\* a ledger entry when the tick starts, the recorded mount point probes as not
\* mounted, and (restart) auto_restart is true.
Failed(i) ==
    /\ Loaded[i]["enable"]
    /\ Has(Before, Loaded[i]["name"])
    /\ Before.at[Loaded[i]["name"]].mount_point \notin last.probe
MustRestart(i) == Failed(i) /\ Loaded[i]["auto_restart"]
Spawned(name) == {last.calls[j].pid : j \in CallsTo("Popen", name)} \ {0}

\* C5: one watchdog tick performs, for every enabled mount with auto_restart
\* whose ledger entry probes as not mounted, exactly one start and no stop, and
\* leaves the ledger with a record for it that carries the new pid.
C5_RestartLaw ==
    last.op = "tick" =>
        \A i \in DOMAIN Loaded :
            MustRestart(i) =>
                LET name == Loaded[i]["name"]
                IN  /\ Cardinality(CallsTo("start_mount", name)) = 1
                    /\ CallsTo("stop_mount", name) = {}
                    /\ CallsTo("kill", name) = {}
                    /\ Cardinality(Spawned(name)) = 1
                    /\ Has(After, name)
                    /\ After.at[name].pid \in Spawned(name)
                    /\ After.at[name].pid # Before.at[name].pid
                    /\ After.at[name].timestamp \in Times

\* C6: a watchdog tick invokes start for a mount only if the mount is enabled,
\* has a ledger entry, its recorded mount point probes as not mounted and
\* auto_restart is true; for every other name it invokes neither start nor
\* stop and leaves the ledger entry, or its absence, unchanged.
C6_NonActionLaw ==
    last.op = "tick" =>
        \A name \in Names :
            LET restart == \E i \in DOMAIN Loaded :
                               Loaded[i]["name"] = name /\ MustRestart(i)
            IN  ~restart =>
                    /\ \A j \in DOMAIN last.calls : last.calls[j].name # name
                    /\ SameEntry(name)

\* C6 witness: a tick has met an enabled mount without auto_restart whose
\* ledger entry probes as not mounted, next to a mount whose entry probes as
\* mounted.
C6_Witness ==
    /\ last.op = "tick"
    /\ ~last.raised
    /\ \E i \in DOMAIN Loaded : Failed(i) /\ ~Loaded[i]["auto_restart"]
    /\ \E i \in DOMAIN Loaded :
          /\ Loaded[i]["enable"] /\ Has(Before, Loaded[i]["name"])
          /\ Before.at[Loaded[i]["name"]].mount_point \in last.probe

\* The label of the loaded mount named n, by the rule of the status table.
LoadedNames == {Loaded[i]["name"] : i \in DOMAIN Loaded}
Label(n) ==
    LET m == CHOOSE m \in {Loaded[i] : i \in DOMAIN Loaded} : m["name"] = n
    IN  CASE ~m["enable"] -> "Disabled"
          [] m["enable"] /\ Has(Before, n)
                /\ Before.at[n].mount_point \in last.probe -> "Active"
          [] m["enable"] /\ Has(Before, n)
                /\ Before.at[n].mount_point \notin last.probe -> "Inactive"
          [] m["enable"] /\ ~Has(Before, n) -> "Not Mounted"

\* C7: status never raises; without an argument it returns a mapping whose
\* keys are exactly the spec names, each with the label of the status table;
\* status(name) for a name of no spec returns {name: "Not Found"}.
C7_StatusLabels ==
    last.op = "status" =>
        /\ ~last.raised
        /\ last.args = <<>> =>
              /\ DOMAIN last.result = {Stored_[i]["name"] : i \in DOMAIN Stored_}
              /\ \A n \in DOMAIN last.result : last.result[n] = Label(n)
        /\ \A name \in ArgNames \ LoadedNames :
              last.args = <<name>> =>
                  last.result = [n \in {name} |-> "Not Found"]

\* C8: stop on a name without a ledger entry sends no signal, invokes no
\* unmount, leaves the ledger unchanged and never raises.
C8_StopIsNoOp ==
    \A name \in Names :
        (last.op = "stop" /\ last.args = <<name>> /\ ~Has(Before, name)) =>
            /\ CallsTo("kill", name) = {}
            /\ CallsTo("fusermount", name) = {}
            /\ pidsFile = last.pre
            /\ ~last.raised

\* The calls to f made by the last operation.
Calls(f) == {j \in DOMAIN last.calls : last.calls[j].f = f}

\* C9: a batch start or stop attempts every name it is given, and the "all"
\* forms every mount and every ledger key, whatever fails on the way: start
\* is attempted once for each given name that is a mount's, stop once for
\* each given name.
C9_BatchGoesOn ==
    /\ last.op = "start" =>
          Cardinality(Calls("start_mount")) =
              Cardinality({i \in DOMAIN last.args : last.args[i] \in LoadedNames})
    /\ last.op = "start all" =>
          Cardinality(Calls("start_mount")) = Len(Loaded)
    /\ last.op = "stop" =>
          Cardinality(Calls("stop_mount")) = Len(last.args)
    /\ last.op = "stop all" =>
          Cardinality(Calls("stop_mount")) = Len(Before.keys)

\* C10: the watchdog loop never ends on its own: no tick leaves the loop with
\* an exception.
C10_WatchdogGoesOn ==
    last.op = "tick" => ~last.raised

\* C11: an operation that loads a persisted file that exists but does not
\* parse completes without raising.
C11_MalformedNotFatal ==
    (last.op \in {"start", "start all", "stop", "stop all", "tick"}
        /\ (mountsFile.kind = "malformed" \/ last.pre.kind = "malformed")) =>
        ~last.raised

\* The rule of the validation table: remote is a mapping whose name and type
\* are present and not empty, and mount_point is a string that is not blank.
Valid(mount) ==
    /\ "remote" \in DOMAIN mount
    /\ mount["remote"].isdict
    /\ {"name", "type"} \subseteq mount["remote"].keys
    /\ mount["remote"].name # ""
    /\ mount["remote"].type # ""
    /\ "mount_point" \in DOMAIN mount
    /\ mount["mount_point"].isstr
    /\ mount["mount_point"].s \notin Blank

NamesOf(mounts) == {mounts[i]["name"] : i \in DOMAIN mounts}

\* C15: load, save, load yields the validated spec list of the first load.
C15_LoadSaveLoad ==
    (last.op = "resave" /\ ~last.raised) =>
        /\ ~load_mounts(mountsFile).raised
        /\ load_mounts(mountsFile).mounts = last.result

\* C15 witness: the first load has supplied a default or forced enable to
\* false on a mount stored as enabled, and the list was saved and loaded again.
C15_Witness ==
    /\ last.op = "resave"
    /\ ~last.raised
    /\ \E i \in DOMAIN last.result :
          /\ Get(last.args[1].data[i], "enable", TRUE)
          /\ ~last.result[i]["enable"]
    /\ mountsFile # last.args[1]

\* The spec list before and after the last import, as load_mounts gives it.
ImportBefore == load_mounts(last.args[1]).mounts
ImportAfter == load_mounts(mountsFile).mounts

\* C16: import leaves the existing specs as they are, adds a spec only for a
\* name derived from a listed remote and not already present, yields no two
\* specs of one name from a list without duplicates, and, once it has listed
\* the remotes and saved, adds nothing when run again with the same remote list.
C16_ImportIdempotent ==
    (last.op = "import" /\ ~last.raised) =>
        /\ Len(ImportAfter) >= Len(ImportBefore)
        /\ SubSeq(ImportAfter, 1, Len(ImportBefore)) = ImportBefore
        /\ \A i \in DOMAIN ImportAfter \ DOMAIN ImportBefore :
              /\ ImportAfter[i]["name"] \notin NamesOf(ImportBefore)
              /\ \E j \in DOMAIN last.args[2] :
                    /\ last.args[2][j] # ""
                    /\ ImportAfter[i]["name"] = Strip(last.args[2][j])
        /\ Cardinality(NamesOf(ImportBefore)) = Len(ImportBefore) =>
              Cardinality(NamesOf(ImportAfter)) = Len(ImportAfter)
        /\ (last.args[3] = "ok" /\ last.args[4] = "ok") =>
              \A save \in SaveFates :
                  Len(load_mounts(import_mounts_from_rclone(
                          mountsFile, last.args[2], "ok", save).file).mounts)
                      = Len(ImportAfter)

\* C16 witness: an import has added a spec for one listed remote and skipped
\* another whose name a spec already had.
C16_Witness ==
    /\ last.op = "import"
    /\ ~last.raised
    /\ last.args[3] = "ok" /\ last.args[4] = "ok"
    /\ Len(ImportAfter) > Len(ImportBefore)
    /\ \E j \in DOMAIN last.args[2] :
          last.args[2][j] # "" /\ Strip(last.args[2][j]) \in NamesOf(ImportBefore)

\* status(name) as it answers in the current state under the probe results.
StatusNow(name, probe) == mnt_status(Name(name), World(probe), mountsFile)

\* C13: for an enabled valid spec, once start has completed and the mount
\* point probes as mounted, status(name) is Active; once a following stop has
\* completed, status(name) is Not Mounted.
C13_Lifecycle ==
    \A i \in DOMAIN Loaded :
        LET name == Loaded[i]["name"]
        IN  (Loaded[i]["enable"] /\ last.args = <<name>> /\ ~last.raised) =>
              /\ last.op = "start" =>
                    \A probe \in SUBSET MountPoints :
                        Loaded[i]["mount_point"].s \in probe =>
                            /\ ~StatusNow(name, probe).raised
                            /\ StatusNow(name, probe).result
                                   = [n \in {name} |-> "Active"]
              /\ (last.op = "stop" /\ Has(Before, name)) =>
                    \A probe \in SUBSET MountPoints :
                        /\ ~StatusNow(name, probe).raised
                        /\ StatusNow(name, probe).result
                               = [n \in {name} |-> "Not Mounted"]

\* C13 witness: a stop has completed for an enabled spec whose ledger entry
\* was written by a start of that spec.
C13_Witness ==
    \E i \in DOMAIN Loaded :
        /\ Loaded[i]["enable"]
        /\ last.op = "stop" /\ last.args = <<Loaded[i]["name"]>>
        /\ ~last.raised
        /\ Has(Before, Loaded[i]["name"])
        /\ Before.at[Loaded[i]["name"]].mount_point = Loaded[i]["mount_point"].s
        /\ CallsTo("kill", Loaded[i]["name"]) # {}

\* C14: start on a spec with enable = false creates no directory, spawns no
\* process, leaves the ledger as it is and does not raise.
C14_DisabledStartNoOp ==
    \A i \in DOMAIN Loaded :
        LET name == Loaded[i]["name"]
        IN  (last.op = "start" /\ last.args = <<name>> /\ ~Loaded[i]["enable"]) =>
              /\ \A j \in DOMAIN last.calls : last.calls[j].f = "start_mount"
              /\ pidsFile = last.pre
              /\ ~last.raised

\* C14 witness: start has been called on a disabled spec that has a ledger
\* entry.
C14_Witness ==
    \E i \in DOMAIN Loaded :
        /\ ~Loaded[i]["enable"]
        /\ last.op = "start" /\ last.args = <<Loaded[i]["name"]>>
        /\ Has(Before, Loaded[i]["name"])
        /\ CallsTo("start_mount", Loaded[i]["name"]) # {}

\* The ledger before and after a step.
Ledger == load_pids(pidsFile).pids
Enabled(name) == \E i \in DOMAIN Loaded : Loaded[i]["name"] = name /\ Loaded[i]["enable"]

\* C18: a start for an enabled name that already has a ledger entry spawns
\* one more process, signals none, and leaves the ledger with the record of
\* the new process only; a stop signals only the recorded pid.
C18_StartNotIdempotent ==
    [][\A name \in Names :
         /\ (last'.op = "start" /\ last'.args = <<name>> /\ ~last'.raised
                /\ Enabled(name) /\ Has(Ledger, name)) =>
               /\ procs \subseteq procs'
               /\ \E p \in procs' \ procs :
                     /\ procs' = procs \cup {p}
                     /\ p.name = name
                     /\ Has(Ledger', name)
                     /\ Ledger'.at[name].pid = p.pid
                     /\ Ledger'.at[name].pid # Ledger.at[name].pid
               /\ \A j \in DOMAIN last'.calls : last'.calls[j].f # "kill"
         /\ (last'.op = "stop" /\ last'.args = <<name>> /\ Has(Ledger, name)) =>
               /\ \A p \in procs \ procs' : p.pid = Ledger.at[name].pid
               /\ \A j \in DOMAIN last'.calls :
                     last'.calls[j].f = "kill" =>
                         last'.calls[j].pid = Ledger.at[name].pid
      ]_vars

\* C18 witness: after two starts for a name, a stop for it has completed and
\* a process spawned for the name is still running.
C18_Witness ==
    \E name \in Names :
        /\ last.op = "stop" /\ last.args = <<name>>
        /\ ~last.raised
        /\ CallsTo("kill", name) # {}
        /\ \E p \in procs : p.name = name

\* C20: without interleaving, start and stop for a name leave the ledger
\* records of every other name, and the persisted spec list, unchanged.
C20_Frame ==
    [][\A name \in Names :
         (last'.op \in {"start", "stop"} /\ last'.args = <<name>>) =>
             /\ mountsFile' = mountsFile
             /\ \A other \in (DOMAIN Ledger.at \cup DOMAIN Ledger'.at) \ {name} :
                   /\ Has(Ledger, other) /\ Has(Ledger', other)
                   /\ Ledger'.at[other] = Ledger.at[other]
      ]_vars

\* C20 witness: a start has written the record of a name into a ledger that
\* holds the record of another name.
C20_Witness ==
    \E name \in Names :
        /\ last.op = "start" /\ last.args = <<name>>
        /\ ~last.raised
        /\ Has(After, name)
        /\ \E other \in Names \ {name} : Has(Before, other) /\ Has(After, other)

\* A start and a stop, run as separate processes with no watchdog, have both
\* completed, the stop having removed an entry.
BothCompleted ==
    /\ running["start"].op = "start" /\ running["start"].pc = "done"
    /\ running["stop"].op = "stop" /\ running["stop"].pc = "done"
    /\ running["stop"].removed
    /\ running["watchdog"].op = "none"
\* The record the running start writes.
StartRecord ==
    [pid |-> running["start"].pid,
     mount_point |-> resolve_mount(mountsFile, running["start"].name).mount["mount_point"].s,
     timestamp |-> running["start"].now]

\* C17: with no lock around the ledger, each operation writes back the copy
\* it read with its own change alone: once a start and a stop have both
\* completed, the ledger is the copy of the one that wrote last, so the change
\* of the other is lost whenever that copy was read before the other wrote.
C17_LastWriterWins ==
    BothCompleted =>
        \/ Ledger = Put(running["start"].read, running["start"].name, StartRecord)
        \/ Ledger = Del(running["stop"].read, running["stop"].name)

\* C17 witness: stop(a) and start(b) have both completed, the process start
\* spawned is running and the ledger holds no record of it.
C17_Witness ==
    /\ BothCompleted
    /\ running["start"].name # running["stop"].name
    /\ \E p \in procs : p.pid = running["start"].pid
    /\ ~Has(Ledger, running["start"].name)

\* C19: once stop(name) has completed and removed the ledger entry, and until
\* start is invoked for name again, no step of a watchdog tick, not even of a
\* tick that read the ledger before the stop, spawns a process for name or
\* puts its entry back.
C19_StopRespected ==
    [][\A name \in Names :
         (/\ running["stop"].name = name /\ running["stop"].pc = "done"
          /\ running["stop"].removed
          /\ running'["stop"] = running["stop"]
          /\ ~Has(Ledger, name)
          /\ running'["watchdog"] # running["watchdog"]) =>
             /\ \A p \in procs' \ procs : p.name # name
             /\ ~Has(Ledger', name)
      ]_vars
====
